---- MODULE Spec2Model ----
(***************************************************************************)
(* HuggingFaceFineTuner (src/huggingface/base.py): the fine_tune pipeline  *)
(* of one bolt instance, run any number of times, and compute_metrics.     *)
(*                                                                         *)
(* Python strings are sequences of one-character strings, so that          *)
(* str.lower and os.path.join are computed character by character.        *)
(* Every collaborator call either returns or raises; what it returns and   *)
(* what it raises are chosen from small sets.                              *)
(***************************************************************************)
EXTENDS Integers, Sequences, FiniteSets, TLC

VARIABLES
    pc,            \* position of the caller inside fine_tune
    args,          \* the arguments of the current fine_tune call
    self,          \* the instance attributes (lines 67-76, 213-225)
    input_folder,  \* what self.input.get() returns
    trainer,       \* the arguments the Trainer was constructed with (240-247)
    calls,         \* collaborator calls of the current run, in order
    writes,        \* records handed to state.set_state in the current run
    raised,        \* the first exception raised inside the try block
    observed,      \* what the caller of fine_tune observes when it ends
    eval_pred,     \* the argument of compute_metrics
    metrics        \* << >>, or <<m>> once compute_metrics returned m

vars == <<pc, args, self, input_folder, trainer, calls, writes, raised,
          observed, eval_pred, metrics>>

runVars == <<pc, args, self, input_folder, trainer, calls, writes, raised,
             observed>>

\* None where a handle is expected
None == "None"

\* None where a str is expected, and an attribute that is not set yet
NoneStr == <<"<None>">>
Unset == <<"<unset>">>

(***************************************************************************)
(* Strings                                                                 *)
(***************************************************************************)
S_local == <<"l", "o", "c", "a", "l">>
S_Local == <<"L", "o", "c", "a", "l">>
S_LOCAL == <<"L", "O", "C", "A", "L">>
S_bert == <<"b", "e", "r", "t">>
S_model == <<"m", "o", "d", "e", "l">>
S_slash_model == <<"/">> \o S_model
S_train == <<"t", "r", "a", "i", "n">>
S_eval == <<"e", "v", "a", "l">>
S_repo == <<"o", "/", "r">>
S_empty == << >>

\* str.lower, one character
LowerChar(c) ==
    CASE c = "L" -> "l"
      [] c = "O" -> "o"
      [] c = "C" -> "c"
      [] c = "A" -> "a"
      [] c = "B" -> "b"
      [] OTHER -> c

\* str.lower
Lower(s) == [i \in DOMAIN s |-> LowerChar(s[i])]

\* os.path.join(a, b) of posixpath: an absolute b discards a
PathJoin(a, b) ==
    IF Len(b) > 0 /\ b[1] = "/" THEN b
    ELSE IF Len(a) = 0 \/ a[Len(a)] = "/" THEN a \o b
    ELSE a \o <<"/">> \o b

\* bool(v) of an Optional[str]: None and "" are falsy
Truthy(v) == v # NoneStr /\ v # S_empty

\* bool(h) of a model or tokenizer handle
TruthyHandle(h) == h # None

(***************************************************************************)
(* Inputs and collaborator outcomes                                        *)
(***************************************************************************)
ModelNames == {S_local, S_LOCAL, S_bert}
TokenizerNames == {S_Local, S_bert}
RepoIds == {NoneStr, S_empty, S_repo}
InputFolders == {<<"/">>, <<"/", "d">>}

ModelHandles == {None, "model"}
TokenizerHandles == {None, "tokenizer"}
DatasetHandles == {None, "dataset"}

\* the exceptions a step can raise: class and str(e)
Exceptions ==
    { [cls |-> "Exception", msg |-> S_empty],
      [cls |-> "Exception", msg |-> <<"x">>],
      [cls |-> "BaseException", msg |-> <<"k">>] }

StoreError == [cls |-> "Exception", msg |-> <<"s">>, at |-> "state.set_state"]

\* no exception
NoException == [cls |-> "None", msg |-> S_empty, at |-> "None"]

\* str(e)
Str(e) == e.msg

IsException(e) == e.cls = "Exception"

Call(op, arg) == [op |-> op, arg |-> arg]

Invoke(cs) == calls' = calls \o cs

\* variant: the failing call is attempted again
RaisesRetry(op) ==
    \E e \in Exceptions :
        /\ raised' = [cls |-> e.cls, msg |-> e.msg, at |-> op]
        /\ pc' = pc

\* a step raises; the inner except blocks (106-108, 128-130, 157-159) log
\* and re-raise the same exception
Raises(op) ==
    \E e \in Exceptions :
        /\ raised' = [cls |-> e.cls, msg |-> e.msg, at |-> op]
        /\ pc' = "except"

(***************************************************************************)
(* __init__                                                                *)
(***************************************************************************)
InitSelf ==
    [ model_name |-> NoneStr, tokenizer_name |-> NoneStr, eval |-> FALSE,
      hf_repo_id |-> Unset,
      tokenizer |-> None, model |-> None,
      train_dataset |-> None, eval_dataset |-> None ]

\* no fine_tune call yet
NoArgs ==
    [ model_name |-> NoneStr, tokenizer_name |-> NoneStr, eval |-> FALSE,
      hf_repo_id |-> NoneStr ]

\* no Trainer constructed in this run
NoTrainer ==
    [ built |-> FALSE, model |-> None, train_dataset |-> None,
      eval_dataset |-> None, tokenizer |-> None ]

NoEvalPred == [predictions |-> << >>, labels |-> << >>]

InitRun ==
    /\ pc = "idle"
    /\ args = NoArgs
    /\ self = InitSelf
    /\ input_folder \in InputFolders
    /\ trainer = NoTrainer
    /\ calls = << >>
    /\ writes = << >>
    /\ raised = NoException
    /\ observed = NoException

Init ==
    /\ InitRun
    /\ eval_pred = NoEvalPred
    /\ metrics = << >>

(***************************************************************************)
(* fine_tune                                                               *)
(***************************************************************************)
\* the caller calls fine_tune(model_name, tokenizer_name, ..., eval, hf_repo_id)
fine_tune ==
    /\ pc \in {"idle", "done"}
    /\ \E m \in ModelNames, t \in TokenizerNames, ev \in BOOLEAN, r \in RepoIds :
          args' = [model_name |-> m, tokenizer_name |-> t, eval |-> ev,
                   hf_repo_id |-> r]
    /\ pc' = "config"
    /\ trainer' = NoTrainer
    /\ calls' = << >>
    /\ writes' = << >>
    /\ raised' = NoException
    /\ observed' = NoException
    /\ UNCHANGED <<self, input_folder, eval_pred, metrics>>

\* variant: the eval dataset is loaded whatever self.eval is
LoadsEvalAlways(s) == TRUE

\* line 104
LoadsEval(s) == s.eval

\* line 252
Evaluates(s) == s.eval

\* variant: the upload is not guarded by self.hf_repo_id
UploadsAlways(s) == TRUE

\* line 256
Uploads(s) == Truthy(s.hf_repo_id)

\* line 141
PushesModel(s) == TruthyHandle(s.model)

\* line 149
PushesTokenizer(s) == TruthyHandle(s.tokenizer)

\* upload_to_hf_hub from the tokenizer on (149-156), then line 262
FromPushTokenizer(s) ==
    IF PushesTokenizer(s) THEN "push_tokenizer" ELSE "success"

\* lines 256-257 and 141-148
FromUpload(s) ==
    IF ~Uploads(s) THEN "success"
    ELSE IF PushesModel(s) THEN "push_model"
    ELSE FromPushTokenizer(s)

\* lines 252-254
FromEvaluate(s) == IF Evaluates(s) THEN "evaluate" ELSE FromUpload(s)

\* variant: trainer.evaluate() is called before trainer.save_model()
NextStepEvaluateFirst(step, s) ==
    CASE step = "config" -> "load_model"
      [] step = "load_model" -> "load_tokenizer"
      [] step = "load_tokenizer" -> "copy_from_remote"
      [] step = "copy_from_remote" -> "load_train"
      [] step = "load_train" ->
            IF LoadsEval(s) THEN "load_eval" ELSE "training_args"
      [] step = "load_eval" -> "training_args"
      [] step = "training_args" -> "trainer"
      [] step = "trainer" -> "train"
      [] step = "train" -> IF Evaluates(s) THEN "evaluate" ELSE "save_model"
      [] step = "evaluate" -> "save_model"
      [] step = "save_model" -> FromUpload(s)
      [] step = "push_model" -> FromPushTokenizer(s)
      [] step = "push_tokenizer" -> "success"

\* the statement order of the try block (213-257) and of the helpers it
\* calls: the step that follows a step which returned
NextStep(step, s) ==
    CASE step = "config" -> "load_model"
      [] step = "load_model" -> "load_tokenizer"
      [] step = "load_tokenizer" -> "copy_from_remote"
      [] step = "copy_from_remote" -> "load_train"
      [] step = "load_train" ->
            IF LoadsEval(s) THEN "load_eval" ELSE "training_args"
      [] step = "load_eval" -> "training_args"
      [] step = "training_args" -> "trainer"
      [] step = "trainer" -> "train"
      [] step = "train" -> "save_model"
      [] step = "save_model" -> FromEvaluate(s)
      [] step = "evaluate" -> FromUpload(s)
      [] step = "push_model" -> FromPushTokenizer(s)
      [] step = "push_tokenizer" -> "success"

\* lines 213-225, all assignments done
Configured(s, a) ==
    [s EXCEPT !.model_name = a.model_name,
              !.tokenizer_name = a.tokenizer_name,
              !.eval = a.eval,
              !.hf_repo_id = a.hf_repo_id]

\* lines 213-214 done, self.output.output_folder (215) raised
HalfConfigured(s, a) ==
    [s EXCEPT !.model_name = a.model_name,
              !.tokenizer_name = a.tokenizer_name]

set_configuration ==
    /\ pc = "config"
    /\ \/ /\ self' = Configured(self, args)
          /\ pc' = NextStep("config", self')
          /\ UNCHANGED raised
       \/ /\ self' = HalfConfigured(self, args)
          /\ Raises("output.output_folder")
    /\ UNCHANGED <<args, input_folder, trainer, calls, writes, observed,
                   eval_pred, metrics>>

\* the argument of from_pretrained for a name (113-118, 120-127)
PretrainedSource(name, folder) ==
    IF Lower(name) = S_local THEN PathJoin(folder, S_slash_model) ELSE name

\* the input.get() call made for a "local" name
GetCalls(name) ==
    IF Lower(name) = S_local THEN <<Call("input.get", S_empty)>> ELSE << >>

load_model ==
    /\ pc = "load_model"
    /\ Invoke(GetCalls(self.model_name) \o
              <<Call("model.from_pretrained",
                     PretrainedSource(self.model_name, input_folder))>>)
    /\ \/ /\ \E h \in ModelHandles : self' = [self EXCEPT !.model = h]
          /\ pc' = NextStep("load_model", self)
          /\ UNCHANGED raised
       \/ /\ Raises("model.from_pretrained")
          /\ UNCHANGED self
    /\ UNCHANGED <<args, input_folder, trainer, writes, observed,
                   eval_pred, metrics>>

load_tokenizer ==
    /\ pc = "load_tokenizer"
    /\ Invoke(GetCalls(self.tokenizer_name) \o
              <<Call("tokenizer.from_pretrained",
                     PretrainedSource(self.tokenizer_name, input_folder))>>)
    /\ \/ /\ \E h \in TokenizerHandles : self' = [self EXCEPT !.tokenizer = h]
          /\ pc' = NextStep("load_tokenizer", self)
          /\ UNCHANGED raised
       \/ /\ Raises("tokenizer.from_pretrained")
          /\ UNCHANGED self
    /\ UNCHANGED <<args, input_folder, trainer, writes, observed,
                   eval_pred, metrics>>

copy_from_remote ==
    /\ pc = "copy_from_remote"
    /\ Invoke(<<Call("input.copy_from_remote", S_empty)>>)
    /\ \/ /\ pc' = NextStep("copy_from_remote", self)
          /\ UNCHANGED raised
       \/ Raises("input.copy_from_remote")
    /\ UNCHANGED <<args, self, input_folder, trainer, writes, observed,
                   eval_pred, metrics>>

\* lines 101-103
load_train_dataset ==
    /\ pc = "load_train"
    /\ Invoke(<<Call("input.get", S_empty), Call("input.get", S_empty),
                Call("load_dataset.train", PathJoin(input_folder, S_train))>>)
    /\ \/ /\ \E d \in DatasetHandles :
                self' = [self EXCEPT !.train_dataset = d]
          /\ pc' = NextStep("load_train", self)
          /\ UNCHANGED raised
       \/ /\ Raises("load_dataset.train")
          /\ UNCHANGED self
    /\ UNCHANGED <<args, input_folder, trainer, writes, observed,
                   eval_pred, metrics>>

\* line 105
load_eval_dataset ==
    /\ pc = "load_eval"
    /\ Invoke(<<Call("load_dataset.eval", PathJoin(input_folder, S_eval))>>)
    /\ \/ /\ \E d \in DatasetHandles :
                self' = [self EXCEPT !.eval_dataset = d]
          /\ pc' = NextStep("load_eval", self)
          /\ UNCHANGED raised
       \/ /\ Raises("load_dataset.eval")
          /\ UNCHANGED self
    /\ UNCHANGED <<args, input_folder, trainer, writes, observed,
                   eval_pred, metrics>>

\* lines 233-238
make_training_args ==
    /\ pc = "training_args"
    /\ \/ /\ pc' = NextStep("training_args", self)
          /\ UNCHANGED raised
       \/ Raises("TrainingArguments")
    /\ UNCHANGED <<args, self, input_folder, trainer, calls, writes, observed,
                   eval_pred, metrics>>

\* variant: the attribute is passed whatever self.eval is
TrainerEvalDatasetStale(s) == s.eval_dataset

\* line 244
TrainerEvalDataset(s) == IF s.eval THEN s.eval_dataset ELSE None

\* lines 240-247
make_trainer ==
    /\ pc = "trainer"
    /\ \/ /\ trainer' = [built |-> TRUE,
                         model |-> self.model,
                         train_dataset |-> self.train_dataset,
                         eval_dataset |-> TrainerEvalDataset(self),
                         tokenizer |-> self.tokenizer]
          /\ pc' = NextStep("trainer", self)
          /\ UNCHANGED raised
       \/ /\ Raises("Trainer")
          /\ UNCHANGED trainer
    /\ UNCHANGED <<args, self, input_folder, calls, writes, observed,
                   eval_pred, metrics>>

\* line 249
train ==
    /\ pc = "train"
    /\ Invoke(<<Call("trainer.train", S_empty)>>)
    /\ \/ /\ pc' = NextStep("train", self)
          /\ UNCHANGED raised
       \/ Raises("trainer.train")
    /\ UNCHANGED <<args, self, input_folder, trainer, writes, observed,
                   eval_pred, metrics>>

\* line 250
save_model ==
    /\ pc = "save_model"
    /\ Invoke(<<Call("trainer.save_model", S_empty)>>)
    /\ \/ /\ pc' = NextStep("save_model", self)
          /\ UNCHANGED raised
       \/ Raises("trainer.save_model")
    /\ UNCHANGED <<args, self, input_folder, trainer, writes, observed,
                   eval_pred, metrics>>

\* lines 253-254
evaluate ==
    /\ pc = "evaluate"
    /\ Invoke(<<Call("trainer.evaluate", S_empty)>>)
    /\ \/ /\ pc' = NextStep("evaluate", self)
          /\ UNCHANGED raised
       \/ Raises("trainer.evaluate")
    /\ UNCHANGED <<args, self, input_folder, trainer, writes, observed,
                   eval_pred, metrics>>

\* lines 142-148
push_model ==
    /\ pc = "push_model"
    /\ Invoke(<<Call("model.push_to_hub", self.hf_repo_id)>>)
    /\ \/ /\ pc' = NextStep("push_model", self)
          /\ UNCHANGED raised
       \/ Raises("model.push_to_hub")
    /\ UNCHANGED <<args, self, input_folder, trainer, writes, observed,
                   eval_pred, metrics>>

\* lines 150-156
push_tokenizer ==
    /\ pc = "push_tokenizer"
    /\ Invoke(<<Call("tokenizer.push_to_hub", self.hf_repo_id)>>)
    /\ \/ /\ pc' = NextStep("push_tokenizer", self)
          /\ UNCHANGED raised
       \/ Raises("tokenizer.push_to_hub")
    /\ UNCHANGED <<args, self, input_folder, trainer, writes, observed,
                   eval_pred, metrics>>

\* variant: the record carries no exception text
FailureRecordBlank(e) == [success |-> FALSE, exception |-> S_empty]

\* line 260: the record written on failure
FailureRecord(e) == [success |-> FALSE, exception |-> Str(e)]

\* lines 258-261; `except Exception` does not catch an exception that
\* derives from BaseException only, which leaves fine_tune unhandled
on_exception ==
    /\ pc = "except"
    /\ IF IsException(raised)
       THEN /\ Invoke(<<Call("state.set_state", S_empty)>>)
            /\ writes' = Append(writes, FailureRecord(raised))
            /\ \/ observed' = raised
               \/ observed' = StoreError
       ELSE /\ observed' = raised
            /\ UNCHANGED <<calls, writes>>
    /\ pc' = "done"
    /\ UNCHANGED <<args, self, input_folder, trainer, raised,
                   eval_pred, metrics>>

\* variant: the success path writes a failure record
SuccessRecordFailed == [success |-> FALSE, exception |-> S_empty]

\* line 262: the record written on success
SuccessRecord == [success |-> TRUE]

\* line 262
on_success ==
    /\ pc = "success"
    /\ Invoke(<<Call("state.set_state", S_empty)>>)
    /\ writes' = Append(writes, SuccessRecord)
    /\ \/ observed' = NoException
       \/ observed' = StoreError
    /\ pc' = "done"
    /\ UNCHANGED <<args, self, input_folder, trainer, raised,
                   eval_pred, metrics>>

Next ==
    \/ fine_tune
    \/ set_configuration
    \/ load_model
    \/ load_tokenizer
    \/ copy_from_remote
    \/ load_train_dataset
    \/ load_eval_dataset
    \/ make_training_args
    \/ make_trainer
    \/ train
    \/ save_model
    \/ evaluate
    \/ push_model
    \/ push_tokenizer
    \/ on_exception
    \/ on_success

Spec == Init /\ [][Next]_vars

(***************************************************************************)
(* compute_metrics                                                         *)
(*                                                                         *)
(* A score is an integer number of tenths (0.9 is 9); a metric is the      *)
(* exact fraction <<numerator, denominator>> of the float that is          *)
(* returned.                                                               *)
(***************************************************************************)
MaxN == 3

Rows == { <<9, 1>>, <<2, 8>>, <<3, 7>>, <<5, 5>> }
Labels == {0, 1}

EvalPreds ==
    UNION { { [predictions |-> p, labels |-> l] :
                p \in [1..n -> Rows], l \in [1..n -> Labels] } : n \in 1..MaxN }

\* variant: the index of the minimum
ArgMin(row) ==
    (CHOOSE i \in DOMAIN row :
        /\ \A j \in DOMAIN row : row[j] >= row[i]
        /\ \A j \in DOMAIN row : j < i => row[j] > row[i]) - 1

\* np.argmax of one row: the first index that holds the maximum, from 0
ArgMax(row) ==
    (CHOOSE i \in DOMAIN row :
        /\ \A j \in DOMAIN row : row[j] <= row[i]
        /\ \A j \in DOMAIN row : j < i => row[j] < row[i]) - 1

\* np.argmax(predictions, axis=1), line 172
ArgMaxAxis1(predictions) == [i \in DOMAIN predictions |-> ArgMax(predictions[i])]

\* sklearn accuracy_score(y_true, y_pred), line 175
accuracy_score(y_true, y_pred) ==
    <<Cardinality({i \in DOMAIN y_true : y_true[i] = y_pred[i]}), Len(y_true)>>

\* sklearn _prf_divide: a zero denominator gives 0.0
PrfDivide(n, d) == IF d = 0 THEN <<0, 1>> ELSE <<n, d>>

\* sklearn precision_recall_fscore_support(y_true, y_pred, average="binary"),
\* pos_label 1, beta 1: <<precision, recall, fscore>>, lines 176-178
precision_recall_fscore_support(y_true, y_pred) ==
    LET tp_sum == Cardinality({i \in DOMAIN y_true :
                                  y_true[i] = 1 /\ y_pred[i] = 1})
        pred_sum == Cardinality({i \in DOMAIN y_pred : y_pred[i] = 1})
        true_sum == Cardinality({i \in DOMAIN y_true : y_true[i] = 1})
        precision == PrfDivide(tp_sum, pred_sum)
        recall == PrfDivide(tp_sum, true_sum)
        \* 2 * precision * recall / (precision + recall)
        fscore == PrfDivide(2 * precision[1] * recall[1],
                            precision[1] * recall[2] + recall[1] * precision[2])
    IN <<precision, recall, fscore>>

\* lines 171-179
compute_metrics(ep) ==
    LET predictions == ArgMaxAxis1(ep.predictions)
        labels == ep.labels
    IN [ accuracy |-> accuracy_score(labels, predictions),
         precision |-> precision_recall_fscore_support(labels, predictions)[1],
         recall |-> precision_recall_fscore_support(labels, predictions)[2],
         f1 |-> precision_recall_fscore_support(labels, predictions)[3] ]

InitMetrics ==
    /\ InitRun
    /\ eval_pred \in EvalPreds
    /\ metrics = << >>

\* a call of compute_metrics(eval_pred)
call_compute_metrics ==
    /\ metrics = << >>
    /\ metrics' = <<compute_metrics(eval_pred)>>
    /\ UNCHANGED <<runVars, eval_pred>>

NextMetrics == call_compute_metrics

SpecMetrics == InitMetrics /\ [][NextMetrics]_vars

(***************************************************************************)
(* Properties                                                              *)
(***************************************************************************)
Called(op) == \E i \in DOMAIN calls : calls[i].op = op

PushOps == {"model.push_to_hub", "tokenizer.push_to_hub"}

\* the calls made inside load_models, preprocess_data and upload_to_hf_hub
HelperOps ==
    {"model.from_pretrained", "tokenizer.from_pretrained",
     "input.copy_from_remote", "load_dataset.train", "load_dataset.eval",
     "model.push_to_hub", "tokenizer.push_to_hub"}

Failed == raised # NoException

Ended == pc = "done"

\* C1 as stated: whenever a step of a run raised, the run ends with exactly
\* one set_state write, of the shape {success: false, exception: <non-empty
\* string>}, and the caller observes the exception that was raised.
C1_AnyExceptionRecordedNonEmpty ==
    (Ended /\ Failed) =>
        /\ Len(writes) = 1
        /\ writes[1].success = FALSE
        /\ writes[1].exception # S_empty
        /\ observed = raised

\* C1 amended: whenever a step of a run raised an exception that derives
\* from Exception, the run makes exactly one set_state call, with the record
\* {success: false, exception: str(e)} (str(e) may be empty), and the caller
\* observes the exception that was raised unless that set_state call itself
\* raised.
C1_ExceptionRecorded ==
    (Failed /\ IsException(raised)) =>
        /\ Len(writes) <= 1
        /\ Ended =>
              /\ writes = <<[success |-> FALSE, exception |-> raised.msg]>>
              /\ observed # StoreError => observed = raised

C1_Witness ==
    /\ Ended
    /\ Failed
    /\ IsException(raised)
    /\ raised.msg = S_empty
    /\ raised.at = "trainer.train"
    /\ observed = raised
    /\ Len(writes) = 1

\* C2: in a run in which no step raises, set_state is called exactly once,
\* with {success: true}, and no {success: false, ...} record is written.
C2_SuccessRecorded ==
    ~Failed =>
        /\ Len(writes) <= 1
        /\ \A i \in DOMAIN writes : writes[i].success
        /\ Ended => writes = <<[success |-> TRUE]>>

C2_Witness ==
    /\ Ended
    /\ ~Failed
    /\ Called("trainer.save_model")
    /\ Len(writes) = 1

\* C3: in a run called with eval=false, load_dataset is never invoked on
\* {path}/eval and trainer.evaluate() is never called, whether the run
\* succeeds or fails.
C3_NoEvalWhenDisabled ==
    ~args.eval =>
        \A i \in DOMAIN calls :
            /\ calls[i].op \notin {"load_dataset.eval", "trainer.evaluate"}
            /\ calls[i].op = "load_dataset.train" =>
                  calls[i].arg # input_folder \o <<"/">> \o S_eval

C3_Witness ==
    /\ Ended
    /\ ~args.eval
    /\ Called("load_dataset.train")
    /\ Called("trainer.save_model")

\* C4: push_to_hub is invoked only in runs where a hub repository id is
\* given (never when hf_repo_id is None), and only after train and
\* save_model have completed.
C4_PushOnlyWithRepo ==
    \A i \in DOMAIN calls :
        calls[i].op \in PushOps =>
            /\ args.hf_repo_id # NoneStr
            /\ \E j, k \in DOMAIN calls :
                  /\ j < k
                  /\ k < i
                  /\ calls[j].op = "trainer.train"
                  /\ calls[k].op = "trainer.save_model"

C4_Witness ==
    /\ Ended
    /\ ~Failed
    /\ args.hf_repo_id = NoneStr
    /\ Called("trainer.save_model")

\* the {path}/model subpath under the base path that input.get() returns
ModelUnder(folder) ==
    IF folder[Len(folder)] = "/" THEN folder \o S_model
    ELSE folder \o <<"/">> \o S_model

\* C5: a name equal to "local" case-insensitively is loaded from
\* {path}/model under the base path returned by input.get(), for every base
\* path; any other name is loaded from the registry by that name.
C5_LocalUnderInputFolder ==
    \A i \in DOMAIN calls :
        /\ calls[i].op = "model.from_pretrained" =>
              calls[i].arg = IF Lower(args.model_name) = S_local
                             THEN ModelUnder(input_folder)
                             ELSE args.model_name
        /\ calls[i].op = "tokenizer.from_pretrained" =>
              calls[i].arg = IF Lower(args.tokenizer_name) = S_local
                             THEN ModelUnder(input_folder)
                             ELSE args.tokenizer_name

\* C6: whenever trainer.train() is invoked, the model handle and the train
\* dataset handle passed to the trainer, and the eval dataset handle when
\* eval=true, are not None, whatever load_dataset and from_pretrained
\* returned.
C6_HandlesNonNull ==
    Called("trainer.train") =>
        /\ trainer.model # None
        /\ trainer.train_dataset # None
        /\ args.eval => trainer.eval_dataset # None

\* the predictions, labels and confusion counts of eval_pred, from the
\* definitions of the metrics
PredictedClass(row) == IF row[2] > row[1] THEN 1 ELSE 0

Examples == DOMAIN eval_pred.labels

Hits == Cardinality({i \in Examples :
            PredictedClass(eval_pred.predictions[i]) = eval_pred.labels[i]})

TP == Cardinality({i \in Examples :
          PredictedClass(eval_pred.predictions[i]) = 1 /\ eval_pred.labels[i] = 1})

FP == Cardinality({i \in Examples :
          PredictedClass(eval_pred.predictions[i]) = 1 /\ eval_pred.labels[i] = 0})

FN == Cardinality({i \in Examples :
          PredictedClass(eval_pred.predictions[i]) = 0 /\ eval_pred.labels[i] = 1})

\* the fraction f is n/d
IsRatio(f, n, d) == f[2] > 0 /\ f[1] * d = n * f[2]

InUnit(f) == f[2] > 0 /\ 0 <= f[1] /\ f[1] <= f[2]

ExampleEvalPred ==
    [predictions |-> << <<9, 1>>, <<2, 8>>, <<3, 7>> >>, labels |-> <<0, 1, 0>>]

\* C7: for a two-column prediction matrix and labels over {0,1},
\* compute_metrics returns accuracy = hits/examples, precision = TP/(TP+FP),
\* recall = TP/(TP+FN) (where the denominator is not zero) and F1 = the
\* harmonic mean of precision and recall, each in [0,1], on the argmax
\* predictions; predictions [[0.9,0.1],[0.2,0.8],[0.3,0.7]] with labels
\* [0,1,0] give argmax [0,1,1] and accuracy 2/3; no instance state changes.
C7_MetricsCorrect ==
    metrics # << >> =>
        LET m == metrics[1] IN
        /\ IsRatio(m.accuracy, Hits, Len(eval_pred.labels))
        /\ TP + FP > 0 => IsRatio(m.precision, TP, TP + FP)
        /\ TP + FN > 0 => IsRatio(m.recall, TP, TP + FN)
        /\ TP > 0 => IsRatio(m.f1, 2 * TP, 2 * TP + FP + FN)
        /\ TP > 0 =>
              \* f1 * (precision + recall) = 2 * precision * recall
              m.f1[1] * (m.precision[1] * m.recall[2]
                           + m.recall[1] * m.precision[2])
                = 2 * m.precision[1] * m.recall[1] * m.f1[2]
        /\ TP = 0 => m.f1[1] = 0
        /\ InUnit(m.accuracy)
        /\ InUnit(m.precision)
        /\ InUnit(m.recall)
        /\ InUnit(m.f1)
        /\ eval_pred = ExampleEvalPred =>
              /\ ArgMaxAxis1(eval_pred.predictions) = <<0, 1, 1>>
              /\ IsRatio(m.accuracy, 2, 3)
        /\ self = InitSelf
        /\ pc = "idle"
        /\ calls = << >>
        /\ writes = << >>

C7_Witness ==
    /\ metrics # << >>
    /\ eval_pred = ExampleEvalPred
    /\ IsRatio(metrics[1].accuracy, 2, 3)

\* the position of a call in the order of C8; 0 for a call C8 does not list
Rank(op) ==
    CASE op = "model.from_pretrained" -> 1
      [] op = "tokenizer.from_pretrained" -> 2
      [] op = "input.copy_from_remote" -> 3
      [] op = "load_dataset.train" -> 4
      [] op = "load_dataset.eval" -> 5
      [] op = "trainer.train" -> 6
      [] op = "trainer.save_model" -> 7
      [] op = "trainer.evaluate" -> 8
      [] op = "model.push_to_hub" -> 9
      [] op = "tokenizer.push_to_hub" -> 10
      [] op = "state.set_state" -> 11
      [] OTHER -> 0

\* C8: the calls of a run appear in the order model resolution, tokenizer
\* resolution, copy_from_remote, train dataset, eval dataset (only if eval),
\* train, save_model, evaluate (only if eval), model push, tokenizer push
\* (only if hf_repo_id is given), state-store write; nothing is called after
\* the state-store write.
C8_CallOrder ==
    /\ \A i, j \in DOMAIN calls :
          (i < j /\ Rank(calls[i].op) > 0 /\ Rank(calls[j].op) > 0) =>
              Rank(calls[i].op) < Rank(calls[j].op)
    /\ \A i \in DOMAIN calls :
          calls[i].op = "state.set_state" => i = Len(calls)
    /\ (Called("load_dataset.eval") \/ Called("trainer.evaluate")) => args.eval
    /\ (Called("model.push_to_hub") \/ Called("tokenizer.push_to_hub")) =>
          Truthy(args.hf_repo_id)
    /\ Called("state.set_state") <=> Len(writes) = 1
    /\ Len(writes) <= 1

C8_Witness ==
    /\ Ended
    /\ \A r \in 1..11 : \E i \in DOMAIN calls : Rank(calls[i].op) = r

NotSetState(c) == c.op # "state.set_state"

\* a call inside one of the three helpers raised: it is the last call of the
\* run but for the state-store write
FailedFast ==
    (Failed /\ raised.at \in HelperOps) =>
        LET cs == SelectSeq(calls, NotSetState) IN
        /\ Len(cs) > 0
        /\ cs[Len(cs)].op = raised.at
        /\ \A i \in 1..(Len(cs) - 1) : cs[i].op # raised.at

\* C9 as stated: a call inside load_models, preprocess_data or
\* upload_to_hf_hub that raises is followed by no other step and by no
\* retry, only by the single failure write; in any run each collaborator
\* operation is invoked at most once.
C9_FailFastEachOnce ==
    /\ FailedFast
    /\ (Ended /\ Failed /\ raised.at \in HelperOps) => Len(writes) = 1
    /\ \A i, j \in DOMAIN calls : i < j => calls[i].op # calls[j].op

\* C9 amended: a call inside load_models, preprocess_data or
\* upload_to_hf_hub that raises is followed by no other step and by no
\* retry; if the exception derives from Exception the only remaining action
\* is the single failure write, otherwise nothing is written; in any run
\* each collaborator operation other than input.get() is invoked at most
\* once (input.get() is called twice by preprocess_data and once more for
\* each of model_name and tokenizer_name that is "local").
C9_FailFast ==
    /\ FailedFast
    /\ (Ended /\ Failed /\ raised.at \in HelperOps) =>
          Len(writes) = IF IsException(raised) THEN 1 ELSE 0
    /\ \A i, j \in DOMAIN calls :
          (i < j /\ calls[i].op = calls[j].op) => calls[i].op = "input.get"

C9_Witness ==
    /\ Ended
    /\ Failed
    /\ IsException(raised)
    /\ raised.at = "model.push_to_hub"
    /\ ~Called("tokenizer.push_to_hub")
    /\ Len(writes) = 1

\* C10: across runs on one instance, the trainer of a run called with
\* eval=false is constructed with eval_dataset None even when an earlier run
\* left a dataset in self.eval_dataset, and the eval flag and the hub
\* repository id a run acts on are the ones passed to that run.
C10_RunUsesOwnArguments ==
    /\ (trainer.built /\ ~args.eval) => trainer.eval_dataset = None
    /\ (Called("load_dataset.eval") \/ Called("trainer.evaluate")) => args.eval
    /\ \A i \in DOMAIN calls :
          calls[i].op \in PushOps => calls[i].arg = args.hf_repo_id
    /\ (Ended /\ ~Failed) =>
          /\ args.eval =>
                (Called("load_dataset.eval") /\ Called("trainer.evaluate"))
          /\ (Truthy(args.hf_repo_id) /\ trainer.model # None) =>
                Called("model.push_to_hub")
          /\ ~Truthy(args.hf_repo_id) =>
                (~Called("model.push_to_hub") /\ ~Called("tokenizer.push_to_hub"))

C10_Witness ==
    /\ trainer.built
    /\ ~args.eval
    /\ self.eval_dataset = "dataset"
    /\ trainer.eval_dataset = None
    /\ Called("trainer.train")

TypeOK == pc \in {"idle", "config", "load_model", "load_tokenizer",
                  "copy_from_remote", "load_train", "load_eval",
                  "training_args", "trainer", "train", "save_model",
                  "evaluate", "push_model", "push_tokenizer", "success",
                  "except", "done"}
====
